---- MODULE Spec2Model ----
(***************************************************************************)
(* A model of package logging (logging/logger.go): the Logger, its lock,   *)
(* its three hooks, the default output pipeline, the leveled emission API  *)
(* and the per-request Log record flushed by Serve's end hook.             *)
(*                                                                         *)
(* Every goroutine is a thread t with a position cur[t].pc.  A call is     *)
(* split at the points where another goroutine can observe or change the   *)
(* Logger: each read of a Logger field outside the lock, the Lock, each    *)
(* Write on the destination, the deferred Unlock and the return.           *)
(***************************************************************************)
EXTENDS Integers, Sequences, FiniteSets

\* ------------------------------------------------------------------ bounds
NumThreads == 2
\* emitting calls start only while the destination holds fewer Write calls
MaxOut == 2
\* SetLevel is tried with every Level in 0..MaxLevelArg (Level is a uint8)
MaxLevelArg == 9
\* messages of the text specification are all strings up to this length
MaxStrLen == 3
\* the heap holds at most this many Log records at a time
MaxLogs == 3

Threads == 1..NumThreads

\* ------------------------------------------------------------------ levels
EmergLevel == 0
AlertLevel == 1
CritiLevel == 2
ErrLevel == 3
WarningLevel == 4
NoticeLevel == 5
InfoLevel == 6
DebugLevel == 7

Levels == EmergLevel..DebugLevel

\* func (l Level) String() string
LevelString(lv) ==
  CASE lv = EmergLevel -> "EMERG"
    [] lv = AlertLevel -> "ALERT"
    [] lv = CritiLevel -> "CRIT"
    [] lv = ErrLevel -> "ERR"
    [] lv = WarningLevel -> "WARNING"
    [] lv = NoticeLevel -> "NOTICE"
    [] lv = InfoLevel -> "INFO"
    [] lv = DebugLevel -> "DEBUG"
    [] OTHER -> "LOG"

\* the leveled emission methods and the level each one passes to checkLogLevel
LeveledMethods ==
  {"Emerg", "Alert", "Crit", "Err", "Warning", "Notice", "Info", "Debug", "Debugf"}

MethodLevel(m) ==
  CASE m = "Emerg" -> EmergLevel
    [] m = "Alert" -> AlertLevel
    [] m = "Crit" -> CritiLevel
    [] m = "Err" -> ErrLevel
    [] m = "Warning" -> WarningLevel
    [] m = "Notice" -> NoticeLevel
    [] m = "Info" -> InfoLevel
    [] m = "Debug" -> DebugLevel
    [] m = "Debugf" -> DebugLevel

\* Emerg is the one leveled method that calls Output without checkLogLevel
ChecksLevel(m) == m # "Emerg"

\* Emerg, Alert, Crit and Err pass gear.ErrorWithStack(v, 2) to Output
WrapsError(m) == m \in {"Emerg", "Alert", "Crit", "Err"}

checkLogLevel_Strict(lv, l) == lv < l

\* func (l *Logger) checkLogLevel(level Level) bool
checkLogLevel(lv, l) == lv <= l

\* ------------------------------------------------------------------ text
\* A text is a sequence of characters; CR and LF are the two raw characters
\* the escaper is about.
CR == "\r"
LF == "\n"
Chars == {"a", CR, LF}

RECURSIVE TrimOneLF_All(_)
TrimOneLF_All(s) ==
  IF Len(s) > 0 /\ s[Len(s)] = LF THEN TrimOneLF_All(SubSeq(s, 1, Len(s) - 1)) ELSE s

\* if l := len(s); l > 0 && s[l-1] == '\n' { s = s[0 : l-1] }
TrimOneLF(s) ==
  IF Len(s) > 0 /\ s[Len(s)] = LF THEN SubSeq(s, 1, Len(s) - 1) ELSE s

RECURSIVE crlfEscaper_OnlyLF(_)
crlfEscaper_OnlyLF(s) ==
  IF s = <<>> THEN <<>>
  ELSE (IF Head(s) = LF THEN <<"\\", "n">> ELSE <<Head(s)>>)
         \o crlfEscaper_OnlyLF(Tail(s))

\* var crlfEscaper = strings.NewReplacer("\r", "\\r", "\n", "\\n"), applied
RECURSIVE crlfEscaper(_)
crlfEscaper(s) ==
  IF s = <<>> THEN <<>>
  ELSE (CASE Head(s) = CR -> <<"\\", "r">>
          [] Head(s) = LF -> <<"\\", "n">>
          [] OTHER -> <<Head(s)>>)
         \o crlfEscaper(Tail(s))

\* fmt.Sprintf(lf, a...) for a template of literal characters and "%s" verbs:
\* each verb takes the next operand, a verb with no operand left prints
\* %!s(MISSING), operands left over are reported in a trailing %!(EXTRA ...).
RECURSIVE Sprintf(_, _)
Sprintf(f, args) ==
  IF f = <<>>
    THEN (IF args = <<>> THEN <<>> ELSE <<"%!(EXTRA)">>)
    ELSE IF Head(f) = "%s"
      THEN (IF args = <<>> THEN <<"%!s(MISSING)">> \o Sprintf(Tail(f), args)
                           ELSE Head(args) \o Sprintf(Tail(f), Tail(args)))
      ELSE <<Head(f)>> \o Sprintf(Tail(f), args)

\* the formats New installs, and one other format of each kind
DefaultTimeFormat == "2006-01-02T15:04:05.999Z"
DefaultLogFormat == <<"[", "%s", "]", " ", "%s", " ", "%s">>
OtherTimeFormat == "15:04:05"
OtherLogFormat == <<"%s", "|", "%s", "|", "%s">>

\* t.UTC().Format(tf): the instant rendered in UTC under the layout tf
TimeFormat(tf, t) == <<"utc", t, tf>>

\* ------------------------------------------------------------------ values
\* A value handed to the logger is either a plain value, printed by
\* fmt.Sprint as s, or a Messager, whose Format() yields (s, nil) or an
\* error and whose String() yields dbg.
Plain(s) == [msgr |-> FALSE, s |-> s, dbg |-> s, fails |-> FALSE]
Msgr(s, dbg, fails) == [msgr |-> TRUE, s |-> s, dbg |-> dbg, fails |-> fails]

\* gear.ErrorWithStack(v, 2): a *gear.Error carrying v's text and a stack;
\* gear.Error is a Messager whose Format() marshals the error as JSON.
ErrorWithStack(v) ==
  Msgr(<<"{", "Error">> \o v.dbg \o <<"}">>, <<"Error">> \o v.dbg, FALSE)

format_Swallow(v) == [str |-> IF v.msgr /\ v.fails THEN v.dbg ELSE v.s, err |-> "nil"]

\* func format(i interface{}) (string, error)
format(v) ==
  IF v.msgr
    THEN (IF ~v.fails THEN [str |-> v.s, err |-> "nil"]
                      ELSE [str |-> v.dbg, err |-> "errFormat"])
    ELSE [str |-> v.s, err |-> "nil"]

\* ------------------------------------------------------------------ records
\* type Log map[string]interface{}: a function from the keys it holds to
\* their values.  "chan" stands for a value json.Marshal rejects.
EmptyLog == [k \in {} |-> ""]
InitKeys == {"IP", "Method", "URL", "Proto", "UserAgent", "Start"}
\* json.Marshal writes a map's keys in sorted order
KeyOrder ==
  <<"Data", "IP", "Length", "Method", "Proto", "Start", "Status", "Time",
    "URL", "UserAgent">>
Unmarshalable == "chan"

Len0(log) == Cardinality(DOMAIN log)

Put(log, k, val) == [x \in DOMAIN log \cup {k} |-> IF x = k THEN val ELSE log[x]]

RECURSIVE Entries(_, _)
Entries(log, ks) ==
  IF ks = <<>> THEN <<>>
  ELSE (IF Head(ks) \in DOMAIN log THEN <<Head(ks), ":", log[Head(ks)]>> ELSE <<>>)
         \o Entries(log, Tail(ks))

\* func (l Log) Format() (string, error): json.Marshal(l)
LogFormat(log) ==
  IF \E k \in DOMAIN log : log[k] = Unmarshalable
    THEN [str |-> <<>>, err |-> "errFormat"]
    ELSE [str |-> <<"{">> \o Entries(log, KeyOrder) \o <<"}">>, err |-> "nil"]

\* func (l Log) GoString() string, in one of the orders the map can be ranged
GoString(log) == <<"Log{">> \o Entries(log, KeyOrder) \o <<"}">>

\* a Log handed to Output is a Messager
LogValue(log) == Msgr(LogFormat(log).str, GoString(log), LogFormat(log).err # "nil")

Without(log, k) == [x \in DOMAIN log \ {k} |-> log[x]]

\* func (l Log) Reset(): for key := range l { delete(l, key) }
RECURSIVE Reset(_)
Reset(log) ==
  IF DOMAIN log = {} THEN log
  ELSE Reset(Without(log, CHOOSE k \in DOMAIN log : TRUE))

\* A Log is a Go map, a reference: two variables can hold the same record.
\* The heap maps the references in use to the records they point to;
\* Log{} takes a reference that is not in use.
Refs == 1..MaxLogs
NoLogs == [r \in {} |-> EmptyLog]
Alloc(h) == CHOOSE r \in Refs \ DOMAIN h : \A q \in Refs \ DOMAIN h : r <= q
Store(h, r, log) == [x \in DOMAIN h \cup {r} |-> IF x = r THEN log ELSE h[x]]
Free(h, r) == [x \in DOMAIN h \ {r} |-> h[x]]

\* ------------------------------------------------------------------ state
VARIABLES
  level,        \* Logger.l, the threshold
  tf,           \* Logger.tf, the time format
  lf,           \* Logger.lf, the line format
  initHook,     \* Logger.init: "default" or "custom"
  consumeHook,  \* Logger.consume: "default" or "custom"
  outputHook,   \* Logger.output: "default" or "custom"
  mu,           \* Logger.mu: 0 when free, else the thread holding it
  out,          \* Logger.Out: the Write calls the destination accepted
  destOK,       \* whether the destination accepts a Write
  cur,          \* per thread: the call in progress and its position
  unit,         \* per thread: the request (gear.Context) it is handling
  done,         \* how many calls of the default output hook returned nil
  logs          \* the heap of Log records

vars ==
  <<level, tf, lf, initHook, consumeHook, outputHook, mu, out, destOK, cur,
    unit, done, logs>>

config == <<level, tf, lf, initHook, consumeHook, outputHook>>

NoValue == Plain(<<>>)

\* cur[t]: pc is the position; op, tag, v, arg, sarg, farg are the call and
\* its operands; s and err are the output hook's locals; hook is the output
\* hook the call invoked and calls how many times it invoked one; nw counts
\* the Write calls it made; base is len(out) and was is the threshold as the
\* call was entered; raised says that the call has panicked out of Panic and
\* exits counts its calls of exit().  For a method of Log, self and other
\* are the receiver and the argument, res is the record returned and pre
\* the heap as the method was entered.

Idle ==
  [pc |-> "idle", op |-> "none", tag |-> "", v |-> NoValue, s |-> <<>>,
   err |-> "nil", hook |-> "none", base |-> 0, nw |-> 0, was |-> 0,
   arg |-> 0, sarg |-> "", farg |-> <<>>, calls |-> 0, exits |-> 0,
   raised |-> FALSE, self |-> 0, other |-> 0, res |-> 0, pre |-> NoLogs]

\* unit[t]: log is the reference ctx.Any keeps for the request, 0 before
\* Logger.New has run for it; born holds the init and consume hooks that
\* were installed when it ran, sink the errors ctx.LogErr was given
NoUnit ==
  [phase |-> "none", log |-> 0, endLen |-> 0, consumed |-> 0, errs |-> 0,
   born |-> [init |-> "default", consume |-> "default"], sink |-> <<>>]

\* New(w io.Writer) *Logger: DebugLevel, the default formats and hooks
NewLogger ==
  /\ level = DebugLevel
  /\ tf = DefaultTimeFormat
  /\ lf = DefaultLogFormat
  /\ initHook = "default"
  /\ consumeHook = "default"
  /\ outputHook = "default"
  /\ mu = 0
  /\ out = <<>>
  /\ destOK = TRUE
  /\ cur = [t \in Threads |-> Idle]
  /\ unit = [t \in Threads |-> NoUnit]
  /\ done = 0

\* a program with a new Logger and no Log record yet
Init == NewLogger /\ logs = NoLogs

At(t, pc) == cur[t].pc = pc
Goto(t, r) == cur' = [cur EXCEPT ![t] = r]

\* one Write call on Logger.Out: all of data is accepted, or none and an error
Write(t, part, data) ==
  IF destOK THEN Append(out, [by |-> t, part |-> part, data |-> data]) ELSE out
WriteErr == IF destOK THEN "nil" ELSE "errWrite"

\* the destination stops accepting writes (a closed pipe, a full disk)
DestFail ==
  /\ destOK
  /\ destOK' = FALSE
  /\ UNCHANGED <<logs, done, config, mu, out, cur, unit>>

\* ------------------------------------------------------------------ emission
\* what the leveled method m hands to Output for its operand v: Emerg,
\* Alert, Crit and Err wrap it in an error with a stack, Debugf hands over
\* the string fmt.Sprintf made, the others v itself
Argument(m, v) ==
  IF WrapsError(m) THEN ErrorWithStack(v)
  ELSE IF m = "Debugf" THEN Plain(v.s)
  ELSE v

\* a caller enters one of Emerg .. Debugf with value v
BeginLeveled(t, m, v) ==
  /\ At(t, "idle")
  /\ Len(out) < MaxOut
  /\ Goto(t, [Idle EXCEPT !.pc = IF ChecksLevel(m) THEN "check" ELSE "output",
                          !.op = m,
                          !.tag = LevelString(MethodLevel(m)),
                          !.v = Argument(m, v),
                          !.base = Len(out)])
  /\ UNCHANGED <<logs, done, config, mu, out, destOK, unit>>

\* if l.checkLogLevel(XLevel) { return l.Output(...) }; return nil
CheckLevel(t) ==
  /\ At(t, "check")
  /\ Goto(t, [cur[t] EXCEPT !.pc =
        IF checkLogLevel(MethodLevel(cur[t].op), level) THEN "output" ELSE "ret"])
  /\ UNCHANGED <<logs, done, config, mu, out, destOK, unit>>

\* a caller enters Logger.Output(tag, t, v) directly
BeginOutput(t, tag, v) ==
  /\ At(t, "idle")
  /\ Len(out) < MaxOut
  /\ Goto(t, [Idle EXCEPT !.pc = "output", !.op = "Output", !.tag = tag, !.v = v,
                          !.base = Len(out)])
  /\ UNCHANGED <<logs, done, config, mu, out, destOK, unit>>

\* where Output returns to: Panic goes on to panic(err), Fatal to exit(),
\* every other caller returns what Output returned
Back(op) ==
  CASE op = "Panic" -> "raise"
    [] op = "Fatal" -> "exit"
    [] OTHER -> "ret"

\* func (l *Logger) Output: return l.output(tag, t, v)
Output(t) ==
  /\ At(t, "output")
  /\ Goto(t, [cur[t] EXCEPT !.hook = outputHook, !.calls = @ + 1,
                            !.pc = IF outputHook = "default" THEN "format"
                                                             ELSE Back(cur[t].op)])
  /\ UNCHANGED <<logs, done, config, mu, out, destOK, unit>>

\* logger.output: s, err := format(v); if err != nil { return err }; trim
Format(t) ==
  /\ At(t, "format")
  /\ LET r == format(cur[t].v) IN
       Goto(t, IF r.err # "nil"
                 THEN [cur[t] EXCEPT !.pc = Back(cur[t].op), !.err = r.err]
                 ELSE [cur[t] EXCEPT !.pc = "lock", !.s = TrimOneLF(r.str)])
  /\ UNCHANGED <<logs, done, config, mu, out, destOK, unit>>

\* the configuration setters and the raw print methods
Setters ==
  {"SetLevel", "SetTimeFormat", "SetLogFormat", "SetLogInit", "SetLogConsume",
   "SetOutput"}
Printers == {"Print", "Printf", "Println"}
HookNames == {"default", "custom"}

\* what follows mu.Lock() in the call in progress
AfterLock(op) ==
  CASE op \in Printers -> "print"
    [] op \in Setters -> "set"
    [] OTHER -> "fprintf"

Lock_Skip(t) ==
  /\ At(t, "lock")
  /\ Goto(t, [cur[t] EXCEPT !.pc = AfterLock(cur[t].op)])
  /\ UNCHANGED <<logs, done, config, mu, out, destOK, unit>>

\* mu.Lock()
Lock(t) ==
  /\ At(t, "lock")
  /\ mu = 0
  /\ mu' = t
  /\ Goto(t, [cur[t] EXCEPT !.pc = AfterLock(cur[t].op)])
  /\ UNCHANGED <<logs, done, config, out, destOK, unit>>

\* the line logger.output formats
Line(tag, s) == Sprintf(lf, <<TimeFormat(tf, "now"), <<tag>>, crlfEscaper(s)>>)

\* _, err = fmt.Fprintf(logger.Out, logger.lf, ...): one Write of the line
Fprintf(t) ==
  /\ At(t, "fprintf")
  /\ out' = Write(t, "line", Line(cur[t].tag, cur[t].s))
  /\ Goto(t, [cur[t] EXCEPT !.err = WriteErr, !.nw = @ + 1,
                            !.pc = IF WriteErr = "nil" THEN "newline" ELSE "unlock"])
  /\ UNCHANGED <<logs, done, config, mu, destOK, unit>>

\* if err == nil { logger.Out.Write([]byte{'\n'}) }: the result is dropped
Newline(t) ==
  /\ At(t, "newline")
  /\ out' = Write(t, "nl", <<LF>>)
  /\ Goto(t, [cur[t] EXCEPT !.nw = @ + 1, !.pc = "unlock"])
  /\ UNCHANGED <<logs, done, config, mu, destOK, unit>>

\* the call at its deferred Unlock is one of the output hook that returns nil
WroteLine(t) ==
  /\ cur[t].err = "nil"
  /\ cur[t].op \notin Setters \cup Printers

Unlock_OnSuccess(t) ==
  /\ At(t, "unlock")
  /\ mu' = IF cur[t].err = "nil" THEN 0 ELSE mu
  /\ Goto(t, [cur[t] EXCEPT !.pc = Back(cur[t].op)])
  /\ done' = IF WroteLine(t) THEN done + 1 ELSE done
  /\ UNCHANGED <<logs, config, out, destOK, unit>>

\* defer mu.Unlock(), run as the call returns or panics
Unlock(t) ==
  /\ At(t, "unlock")
  /\ mu' = 0
  /\ Goto(t, [cur[t] EXCEPT !.pc = Back(cur[t].op)])
  /\ done' = IF WroteLine(t) THEN done + 1 ELSE done
  /\ UNCHANGED <<logs, config, out, destOK, unit>>

\* the call returns cur[t].err to its caller; when the caller is the host
\* running its end hooks, the request is over
Return(t) ==
  /\ At(t, "ret")
  /\ cur[t].op # "flush"
  /\ Goto(t, Idle)
  /\ unit' = IF cur[t].op = "end" THEN [unit EXCEPT ![t].phase = "ended"] ELSE unit
  /\ UNCHANGED <<logs, done, config, mu, out, destOK>>

\* ------------------------------------------------------------------ print
BeginPrint_Output(t, m, text) ==
  /\ At(t, "idle")
  /\ Len(out) < MaxOut
  /\ Goto(t, [Idle EXCEPT !.pc = "output", !.op = m, !.v = Plain(text),
                          !.s = text, !.base = Len(out)])
  /\ UNCHANGED <<logs, done, config, mu, out, destOK, unit>>

\* a caller enters Print, Printf or Println; text is what fmt renders of the
\* operands
BeginPrint(t, m, text) ==
  /\ At(t, "idle")
  /\ Len(out) < MaxOut
  /\ Goto(t, [Idle EXCEPT !.pc = "lock", !.op = m, !.s = text, !.base = Len(out)])
  /\ UNCHANGED <<logs, done, config, mu, out, destOK, unit>>

\* fmt.Fprint / Fprintf / Fprintln(l.Out, ...): one Write, its result dropped
Fprint(t) ==
  /\ At(t, "print")
  /\ out' = Write(t, "raw", IF cur[t].op = "Println" THEN cur[t].s \o <<LF>>
                                                     ELSE cur[t].s)
  /\ Goto(t, [cur[t] EXCEPT !.nw = @ + 1, !.pc = "unlock"])
  /\ UNCHANGED <<logs, done, config, mu, destOK, unit>>

\* ------------------------------------------------------------------ panic, fatal
BeginPanic_RaiseFirst(t, v) ==
  /\ At(t, "idle")
  /\ Len(out) < MaxOut
  /\ Goto(t, [Idle EXCEPT !.pc = "raise", !.op = "Panic",
                          !.tag = LevelString(EmergLevel),
                          !.v = ErrorWithStack(v), !.base = Len(out)])
  /\ UNCHANGED <<logs, done, config, mu, out, destOK, unit>>

\* a caller enters Panic(v): err := gear.ErrorWithStack(v, 2);
\* l.Output(EmergLevel.String(), time.Now(), err), with no checkLogLevel
BeginPanic(t, v) ==
  /\ At(t, "idle")
  /\ Len(out) < MaxOut
  /\ Goto(t, [Idle EXCEPT !.pc = "output", !.op = "Panic",
                          !.tag = LevelString(EmergLevel),
                          !.v = ErrorWithStack(v), !.base = Len(out)])
  /\ UNCHANGED <<logs, done, config, mu, out, destOK, unit>>

\* a caller enters Fatal(v):
\* l.Output(EmergLevel.String(), time.Now(), gear.ErrorWithStack(v, 2))
BeginFatal(t, v) ==
  /\ At(t, "idle")
  /\ Len(out) < MaxOut
  /\ Goto(t, [Idle EXCEPT !.pc = "output", !.op = "Fatal",
                          !.tag = LevelString(EmergLevel),
                          !.v = ErrorWithStack(v), !.base = Len(out)])
  /\ UNCHANGED <<logs, done, config, mu, out, destOK, unit>>

\* panic(err): Output's result was dropped; the call unwinds to its caller,
\* which recovers
Raise(t) ==
  /\ At(t, "raise")
  /\ Goto(t, [cur[t] EXCEPT !.pc = "ret", !.raised = TRUE])
  /\ UNCHANGED <<logs, done, config, mu, out, destOK, unit>>

\* exit(): as installed, func() { os.Exit(1) }, after which no goroutine of
\* the process takes a step; a replacement of the package variable returns
\* and Fatal returns after it
Exit(t, returns) ==
  /\ At(t, "exit")
  /\ Goto(t, [cur[t] EXCEPT !.pc = IF returns THEN "ret" ELSE "exited",
                            !.exits = @ + 1])
  /\ UNCHANGED <<logs, done, config, mu, out, destOK, unit>>

\* ------------------------------------------------------------------ setters
\* a caller enters a setter with its argument
BeginSetLevel(t, lv) ==
  /\ At(t, "idle")
  /\ Goto(t, [Idle EXCEPT !.pc = "lock", !.op = "SetLevel", !.arg = lv,
                          !.was = level])
  /\ UNCHANGED <<logs, done, config, mu, out, destOK, unit>>

BeginSetFormat(t, op, f) ==
  /\ At(t, "idle")
  /\ op = "SetLogFormat"
  /\ Goto(t, [Idle EXCEPT !.pc = "lock", !.op = op, !.farg = f])
  /\ UNCHANGED <<logs, done, config, mu, out, destOK, unit>>

BeginSetter(t, op, a) ==
  /\ At(t, "idle")
  /\ op \in {"SetTimeFormat", "SetLogInit", "SetLogConsume", "SetOutput"}
  /\ Goto(t, [Idle EXCEPT !.pc = "lock", !.op = op, !.sarg = a])
  /\ UNCHANGED <<logs, done, config, mu, out, destOK, unit>>

SetLevel_NoCheck(t) ==
  /\ At(t, "set") /\ cur[t].op = "SetLevel"
  /\ level' = cur[t].arg
  /\ Goto(t, [cur[t] EXCEPT !.pc = "unlock"])
  /\ UNCHANGED <<logs, done, tf, lf, initHook, consumeHook, outputHook, mu, out, destOK, unit>>

\* if level > DebugLevel { panic(...) }; l.l = level
SetLevel(t) ==
  /\ At(t, "set") /\ cur[t].op = "SetLevel"
  /\ IF cur[t].arg > DebugLevel
       THEN /\ Goto(t, [cur[t] EXCEPT !.pc = "unlock", !.err = "panic"])
            /\ UNCHANGED level
       ELSE /\ Goto(t, [cur[t] EXCEPT !.pc = "unlock"])
            /\ level' = cur[t].arg
  /\ UNCHANGED <<logs, done, tf, lf, initHook, consumeHook, outputHook, mu, out, destOK, unit>>

\* l.tf = timeFormat
SetTimeFormat(t) ==
  /\ At(t, "set") /\ cur[t].op = "SetTimeFormat"
  /\ tf' = cur[t].sarg
  /\ Goto(t, [cur[t] EXCEPT !.pc = "unlock"])
  /\ UNCHANGED <<logs, done, level, lf, initHook, consumeHook, outputHook, mu, out, destOK, unit>>

\* l.lf = logFormat
SetLogFormat(t) ==
  /\ At(t, "set") /\ cur[t].op = "SetLogFormat"
  /\ lf' = cur[t].farg
  /\ Goto(t, [cur[t] EXCEPT !.pc = "unlock"])
  /\ UNCHANGED <<logs, done, level, tf, initHook, consumeHook, outputHook, mu, out, destOK, unit>>

\* l.init = fn
SetLogInit(t) ==
  /\ At(t, "set") /\ cur[t].op = "SetLogInit"
  /\ initHook' = cur[t].sarg
  /\ Goto(t, [cur[t] EXCEPT !.pc = "unlock"])
  /\ UNCHANGED <<logs, done, level, tf, lf, consumeHook, outputHook, mu, out, destOK, unit>>

\* l.consume = fn
SetLogConsume(t) ==
  /\ At(t, "set") /\ cur[t].op = "SetLogConsume"
  /\ consumeHook' = cur[t].sarg
  /\ Goto(t, [cur[t] EXCEPT !.pc = "unlock"])
  /\ UNCHANGED <<logs, done, level, tf, lf, initHook, outputHook, mu, out, destOK, unit>>

\* l.output = fn
SetOutput(t) ==
  /\ At(t, "set") /\ cur[t].op = "SetOutput"
  /\ outputHook' = cur[t].sarg
  /\ Goto(t, [cur[t] EXCEPT !.pc = "unlock"])
  /\ UNCHANGED <<logs, done, level, tf, lf, initHook, consumeHook, mu, out, destOK, unit>>

\* ------------------------------------------------------------------ lifecycle
SetUnit(t, u) == unit' = [unit EXCEPT ![t] = u]

\* the record of the request thread t is handling
Rec(t) == logs[unit[t].log]
SetRec(t, log) == logs' = [logs EXCEPT ![unit[t].log] = log]

\* logger.init as New installs it: the request's fields and time.Now()
DefaultInit(log) ==
  [k \in DOMAIN log \cup InitKeys |->
     CASE k = "IP" -> "ip"
       [] k = "Method" -> "GET"
       [] k = "URL" -> "/"
       [] k = "Proto" -> "HTTP/1.1"
       [] k = "UserAgent" -> "ua"
       [] k = "Start" -> "t0"
       [] OTHER -> log[k]]

\* an init hook installed with SetLogInit: it seeds one field of its own
CustomInit(log) == Put(log, "Data", "seed")

\* the host hands a request to the middleware: Serve's FromCtx makes
\* ctx.Any call Logger.New for this request.  The context of the request
\* the goroutine handled before, and with it that request's record, is
\* garbage by now.
BeginServe(t) ==
  /\ At(t, "idle")
  /\ unit[t].phase \in {"none", "ended"}
  /\ SetUnit(t, [NoUnit EXCEPT !.phase = "new"])
  /\ logs' = Free(logs, unit[t].log)
  /\ Goto(t, [Idle EXCEPT !.pc = "new", !.op = "Serve"])
  /\ UNCHANGED <<done, config, mu, out, destOK>>

New_ConsumeNow(t) ==
  /\ At(t, "new")
  /\ logs' = Store(logs, Alloc(logs),
                   IF initHook = "default" THEN DefaultInit(EmptyLog)
                                           ELSE CustomInit(EmptyLog))
  /\ SetUnit(t, [unit[t] EXCEPT !.log = Alloc(logs), !.phase = "served",
                                !.born = [init |-> initHook, consume |-> consumeHook],
                                !.consumed = @ + 1])
  /\ Goto(t, [cur[t] EXCEPT !.pc = "ret"])
  /\ UNCHANGED <<done, config, mu, out, destOK>>

New_Shared(t) ==
  /\ At(t, "new")
  /\ logs' = Store(logs, 1,
                   IF initHook = "default" THEN DefaultInit(EmptyLog)
                                           ELSE CustomInit(EmptyLog))
  /\ SetUnit(t, [unit[t] EXCEPT !.log = 1, !.phase = "served",
                                !.born = [init |-> initHook, consume |-> consumeHook]])
  /\ Goto(t, [cur[t] EXCEPT !.pc = "ret"])
  /\ UNCHANGED <<done, config, mu, out, destOK>>

\* Logger.New: log := Log{}; l.init(log, ctx); ctx.Any keeps the record for
\* the request; then Serve registers its end hook with ctx.OnEnd and
\* returns nil
New(t) ==
  /\ At(t, "new")
  /\ logs' = Store(logs, Alloc(logs),
                   IF initHook = "default" THEN DefaultInit(EmptyLog)
                                           ELSE CustomInit(EmptyLog))
  /\ SetUnit(t, [unit[t] EXCEPT !.log = Alloc(logs), !.phase = "served",
                                !.born = [init |-> initHook, consume |-> consumeHook]])
  /\ Goto(t, [cur[t] EXCEPT !.pc = "ret"])
  /\ UNCHANGED <<done, config, mu, out, destOK>>

\* a handler of the request: Logger.SetTo(ctx, key, val) or log[key] = val
SetTo(t, key, val) ==
  /\ At(t, "idle")
  /\ unit[t].phase = "served"
  /\ SetRec(t, Put(Rec(t), key, val))
  /\ UNCHANGED <<done, config, mu, out, destOK, cur, unit>>

\* a handler of the request: logger.FromCtx(ctx).Reset()
HandlerReset(t) ==
  /\ At(t, "idle")
  /\ unit[t].phase = "served"
  /\ SetRec(t, Reset(Rec(t)))
  /\ UNCHANGED <<done, config, mu, out, destOK, cur, unit>>

\* the host ends the request and runs the end hooks it holds, once
HostEnd(t) ==
  /\ At(t, "idle")
  /\ unit[t].phase = "served"
  /\ Len(out) < MaxOut
  /\ SetUnit(t, [unit[t] EXCEPT !.phase = "ending", !.endLen = Len0(Rec(t))])
  /\ Goto(t, [Idle EXCEPT !.pc = "endhook", !.op = "end", !.base = Len(out)])
  /\ UNCHANGED <<logs, done, config, mu, out, destOK>>

EndHook_NoEmptyCheck(t) ==
  /\ At(t, "endhook")
  /\ SetRec(t, Put(Put(Rec(t), "Status", "200"), "Length", "5"))
  /\ Goto(t, [cur[t] EXCEPT !.pc = "consume"])
  /\ UNCHANGED <<done, config, mu, out, destOK, unit>>

\* Serve's end hook: if len(log) == 0 { return }; stamp Status and Length;
\* go on to l.consume(log, ctx)
EndHook(t) ==
  /\ At(t, "endhook")
  /\ IF Len0(Rec(t)) = 0
       THEN /\ Goto(t, [cur[t] EXCEPT !.pc = "ret"])
            /\ UNCHANGED logs
       ELSE /\ SetRec(t, Put(Put(Rec(t), "Status", "200"), "Length", "5"))
            /\ Goto(t, [cur[t] EXCEPT !.pc = "consume"])
  /\ UNCHANGED <<done, config, mu, out, destOK, unit>>

Consume_NeedsStart(t) ==
  /\ At(t, "consume")
  /\ SetUnit(t, [unit[t] EXCEPT !.consumed = @ + 1])
  /\ IF consumeHook = "default" /\ "Start" \in DOMAIN Rec(t)
       THEN LET log == Put(Rec(t), "Time", "ms")
            IN  /\ SetRec(t, log)
                /\ Goto(t, [cur[t] EXCEPT !.pc = "output", !.op = "flush",
                                          !.tag = LevelString(InfoLevel),
                                          !.v = LogValue(log)])
       ELSE /\ UNCHANGED logs
            /\ Goto(t, [cur[t] EXCEPT !.pc = "ret",
                          !.err = IF consumeHook = "default" THEN "panic" ELSE "nil"])
  /\ UNCHANGED <<done, config, mu, out, destOK>>

Consume_AtNew(t) ==
  /\ At(t, "consume")
  /\ SetUnit(t, [unit[t] EXCEPT !.consumed = @ + 1])
  /\ IF unit[t].born.consume = "default"
       THEN LET log == IF "Start" \in DOMAIN Rec(t)
                         THEN Put(Rec(t), "Time", "ms") ELSE Rec(t)
            IN  /\ SetRec(t, log)
                /\ Goto(t, [cur[t] EXCEPT !.pc = "output", !.op = "flush",
                                          !.tag = LevelString(InfoLevel),
                                          !.v = LogValue(log)])
       ELSE /\ UNCHANGED logs
            /\ Goto(t, [cur[t] EXCEPT !.pc = "ret"])
  /\ UNCHANGED <<done, config, mu, out, destOK>>

\* l.consume(log, ctx).  The default hook sets Time when Start is a
\* time.Time and calls logger.Output(InfoLevel.String(), end, log); a hook
\* installed with SetLogConsume takes the record and returns.
Consume(t) ==
  /\ At(t, "consume")
  /\ SetUnit(t, [unit[t] EXCEPT !.consumed = @ + 1])
  /\ IF consumeHook = "default"
       THEN LET log == IF "Start" \in DOMAIN Rec(t)
                         THEN Put(Rec(t), "Time", "ms") ELSE Rec(t)
            IN  /\ SetRec(t, log)
                /\ Goto(t, [cur[t] EXCEPT !.pc = "output", !.op = "flush",
                                          !.tag = LevelString(InfoLevel),
                                          !.v = LogValue(log)])
       ELSE /\ UNCHANGED logs
            /\ Goto(t, [cur[t] EXCEPT !.pc = "ret"])
  /\ UNCHANGED <<done, config, mu, out, destOK>>

\* back in the default consume hook: if err != nil { ctx.LogErr(err) }; the
\* hook returns to Serve's end hook, which returns to the host
ConsumeReturn(t) ==
  /\ At(t, "ret")
  /\ cur[t].op = "flush"
  /\ SetUnit(t, [unit[t] EXCEPT
       !.errs = IF cur[t].err # "nil" THEN @ + 1 ELSE @,
       !.sink = IF cur[t].err # "nil" THEN Append(@, cur[t].err) ELSE @])
  /\ Goto(t, [cur[t] EXCEPT !.op = "end"])
  /\ UNCHANGED <<logs, done, config, mu, out, destOK>>

\* ------------------------------------------------------------------ merging
\* for key, val := range src { dst[key] = val }, on the heap h: the keys
\* ks of the record src are still to be visited
RECURSIVE Copy(_, _, _, _)
Copy(h, dst, src, ks) ==
  IF ks = {} THEN h
  ELSE LET key == CHOOSE k \in ks : TRUE IN
         Copy([h EXCEPT ![dst] = Put(@, key, h[src][key])], dst, src, ks \ {key})

\* a caller enters a method of the record self with the record other
BeginMerge(t, m, self, other) ==
  [Idle EXCEPT !.pc = "ret", !.op = m, !.self = self, !.other = other, !.pre = logs]

\* func (l Log) From(log Log) Log
From(t, l, log) ==
  /\ At(t, "idle")
  /\ logs' = Copy(logs, l, log, DOMAIN logs[log])
  /\ Goto(t, [BeginMerge(t, "From", l, log) EXCEPT !.res = l])
  /\ UNCHANGED <<done, config, mu, out, destOK, unit>>

\* func (l Log) Into(log Log) Log
Into(t, l, log) ==
  /\ At(t, "idle")
  /\ logs' = Copy(logs, log, l, DOMAIN logs[l])
  /\ Goto(t, [BeginMerge(t, "Into", l, log) EXCEPT !.res = log])
  /\ UNCHANGED <<done, config, mu, out, destOK, unit>>

With_InPlace(t, l, log) ==
  /\ At(t, "idle")
  /\ Refs \ DOMAIN logs # {}
  /\ logs' = Copy(logs, l, log, DOMAIN logs[log])
  /\ Goto(t, [BeginMerge(t, "With", l, log) EXCEPT !.res = l])
  /\ UNCHANGED <<done, config, mu, out, destOK, unit>>

\* func (l Log) With(log map[string]interface{}) Log: cp := l.Into(Log{}),
\* then the argument's pairs are copied to cp
With(t, l, log) ==
  /\ At(t, "idle")
  /\ Refs \ DOMAIN logs # {}
  /\ LET cp == Alloc(logs)
         h == Store(logs, cp, EmptyLog)
         g == Copy(h, cp, l, DOMAIN h[l])
     IN  /\ logs' = Copy(g, cp, log, DOMAIN g[log])
         /\ Goto(t, [BeginMerge(t, "With", l, log) EXCEPT !.res = cp])
  /\ UNCHANGED <<done, config, mu, out, destOK, unit>>

\* a handler of the request: logger.FromCtx(ctx).From(extra), for a record
\* extra the handler has made and drops after the call
HandlerFrom(t, extra) ==
  /\ At(t, "idle")
  /\ unit[t].phase = "served"
  /\ Refs \ DOMAIN logs # {}
  /\ LET x == Alloc(logs)
         h == Store(logs, x, extra)
     IN  logs' = Free(Copy(h, unit[t].log, x, DOMAIN extra), x)
  /\ UNCHANGED <<done, config, mu, out, destOK, cur, unit>>

\* ------------------------------------------------------------------ specifications
\* the steps of a call through Output and the default output hook
EmitSteps(t) ==
  \/ CheckLevel(t)
  \/ Output(t)
  \/ Format(t)
  \/ Lock(t)
  \/ Fprintf(t)
  \/ Newline(t)
  \/ Unlock(t)
  \/ Return(t)

\* One goroutine uses the emission API: every leveled method, with a value
\* that renders and one whose Format fails, under every threshold SetLevel
\* accepts, on a destination that can stop accepting writes.
ApiValues == {Plain(<<"a">>), Msgr(<<"m">>, <<"d">>, TRUE)}

NextApi ==
  \/ \E m \in LeveledMethods, v \in ApiValues : BeginLeveled(1, m, v)
  \/ \E lv \in 0..MaxLevelArg : BeginSetLevel(1, lv)
  \/ SetLevel(1)
  \/ EmitSteps(1)
  \/ DestFail

SpecApi == Init /\ [][NextApi]_vars

\* One goroutine handles requests: Serve, handlers that set a field or
\* reset the record, the host's end hooks, with the threshold at Err or
\* Debug, either consume hook, and direct calls of Output.
UnitLevels == {ErrLevel, DebugLevel}
UnitValues == {"v1", Unmarshalable}

UnitSteps(t) ==
  \/ BeginServe(t)
  \/ New(t)
  \/ \E val \in UnitValues : SetTo(t, "Data", val)
  \/ HandlerReset(t)
  \/ HostEnd(t)
  \/ EndHook(t)
  \/ Consume(t)
  \/ ConsumeReturn(t)

NextUnit ==
  \/ UnitSteps(1)
  \/ \E lv \in {InfoLevel, DebugLevel} : BeginOutput(1, LevelString(lv), Plain(<<"a">>))
  \/ \E lv \in UnitLevels : BeginSetLevel(1, lv)
  \/ SetLevel(1)
  \/ \E h \in HookNames : BeginSetter(1, "SetLogConsume", h)
  \/ SetLogConsume(1)
  \/ Output(1) \/ Format(1) \/ Lock(1) \/ Fprintf(1) \/ Newline(1)
  \/ Unlock(1) \/ Return(1)
  \/ DestFail

SpecUnit == Init /\ [][NextUnit]_vars

\* One goroutine emits every text of up to MaxStrLen characters over Chars,
\* as a plain value and as the rendering of a Messager.
RECURSIVE Texts(_)
Texts(n) ==
  IF n = 0 THEN {<<>>}
  ELSE Texts(n - 1) \cup {Append(s, c) : s \in Texts(n - 1), c \in Chars}

TextValues ==
  {Plain(s) : s \in Texts(MaxStrLen)} \cup {Msgr(s, <<>>, FALSE) : s \in Texts(MaxStrLen)}

NextText ==
  \/ \E v \in TextValues : BeginOutput(1, LevelString(InfoLevel), v)
  \/ Output(1) \/ Format(1) \/ Lock(1) \/ Fprintf(1) \/ Newline(1)
  \/ Unlock(1) \/ Return(1)

SpecText == Init /\ [][NextText]_vars

\* One goroutine emits every text of up to MaxStrLen characters, each "a"
\* or LF, through Output, with the time format and the line format set to
\* the ones New installs or to others in between.
RECURSIVE TextsOver(_, _)
TextsOver(cs, n) ==
  IF n = 0 THEN {<<>>}
  ELSE TextsOver(cs, n - 1) \cup {Append(s, c) : s \in TextsOver(cs, n - 1), c \in cs}

LineValues == {Plain(s) : s \in TextsOver({"a", LF}, MaxStrLen)}

NextLine ==
  \/ \E v \in LineValues : BeginOutput(1, LevelString(InfoLevel), v)
  \/ \E f \in {DefaultLogFormat, OtherLogFormat} : BeginSetFormat(1, "SetLogFormat", f)
  \/ \E f \in {DefaultTimeFormat, OtherTimeFormat} : BeginSetter(1, "SetTimeFormat", f)
  \/ SetLogFormat(1)
  \/ SetTimeFormat(1)
  \/ Output(1) \/ Format(1) \/ Lock(1) \/ Fprintf(1) \/ Newline(1)
  \/ Unlock(1) \/ Return(1)

SpecLine == Init /\ [][NextLine]_vars

\* NumThreads goroutines share the Logger and write through it to a working
\* destination: leveled emission (through Output and the output hook) and
\* raw printing, each call interleaved with the others at every step.
Values == {Plain(<<"a">>)}

Next ==
  \E t \in Threads :
    \/ \E v \in Values : BeginLeveled(t, "Info", v)
    \/ \E m \in {"Print", "Println"} : BeginPrint(t, m, <<"p">>)
    \/ Fprint(t)
    \/ EmitSteps(t)

Spec == Init /\ [][Next]_vars

\* One goroutine handles requests and emits at Info, and calls every setter
\* in between, also between the Serve and the end of a request.
NextSet ==
  \/ BeginServe(1)
  \/ New(1)
  \/ SetTo(1, "Data", "v1")
  \/ HostEnd(1)
  \/ EndHook(1)
  \/ Consume(1)
  \/ ConsumeReturn(1)
  \/ \E v \in Values : BeginLeveled(1, "Info", v)
  \/ \E lv \in UnitLevels : BeginSetLevel(1, lv)
  \/ BeginSetFormat(1, "SetLogFormat", OtherLogFormat)
  \/ BeginSetter(1, "SetTimeFormat", OtherTimeFormat)
  \/ \E op \in {"SetLogInit", "SetOutput"} : BeginSetter(1, op, "custom")
  \/ \E h \in HookNames : BeginSetter(1, "SetLogConsume", h)
  \/ SetLevel(1) \/ SetTimeFormat(1) \/ SetLogFormat(1)
  \/ SetLogInit(1) \/ SetLogConsume(1) \/ SetOutput(1)
  \/ EmitSteps(1)

SpecSet == Init /\ [][NextSet]_vars

\* Goroutine 1 reconfigures the Logger with every setter while the other
\* goroutines emit and serve requests: the calls that read what the setters
\* write.
NextRace ==
  \/ BeginSetLevel(1, ErrLevel)
  \/ BeginSetFormat(1, "SetLogFormat", OtherLogFormat)
  \/ \E op \in {"SetLogInit", "SetLogConsume", "SetOutput"} :
       BeginSetter(1, op, "custom")
  \/ BeginSetter(1, "SetTimeFormat", OtherTimeFormat)
  \/ SetLevel(1) \/ SetTimeFormat(1) \/ SetLogFormat(1)
  \/ SetLogInit(1) \/ SetLogConsume(1) \/ SetOutput(1)
  \/ \E t \in Threads :
       \/ t # 1 /\ \E v \in Values : BeginLeveled(t, "Info", v)
       \/ t # 1 /\ BeginServe(t)
       \/ New(t) \/ HostEnd(t) \/ EndHook(t) \/ Consume(t) \/ ConsumeReturn(t)
       \/ EmitSteps(t)

SpecRace == Init /\ [][NextRace]_vars

\* One goroutine calls Panic, Fatal, the raw print methods and Info, and
\* reconfigures the Logger in between: every threshold SetLevel accepts and
\* some it rejects, either output hook, a destination that can stop
\* accepting writes, and an exit() that ends the process or returns.
NextOps ==
  \/ \E v \in Values : BeginPanic(1, v)
  \/ \E v \in Values : BeginFatal(1, v)
  \/ \E m \in Printers : BeginPrint(1, m, <<"p">>)
  \/ \E v \in Values : BeginLeveled(1, "Info", v)
  \/ \E lv \in 0..MaxLevelArg : BeginSetLevel(1, lv)
  \/ \E h \in HookNames : BeginSetter(1, "SetOutput", h)
  \/ SetLevel(1)
  \/ SetOutput(1)
  \/ Fprint(1)
  \/ Raise(1)
  \/ \E returns \in BOOLEAN : Exit(1, returns)
  \/ EmitSteps(1)
  \/ DestFail

SpecOps == Init /\ [][NextOps]_vars

\* One goroutine merges records: the heap starts with two records, each
\* any map from some of MergeKeys to MergeValues, and From, Into and With
\* are applied to every pair of the records there are, a record with
\* itself included.
MergeKeys == {"Data", "IP"}
MergeValues == {"v1", "v2"}
Records == UNION {[ks -> MergeValues] : ks \in SUBSET MergeKeys}

InitLog == NewLogger /\ logs \in [{1, 2} -> Records]

NextLog ==
  \/ \E l, log \in DOMAIN logs : From(1, l, log)
  \/ \E l, log \in DOMAIN logs : Into(1, l, log)
  \/ \E l, log \in DOMAIN logs : With(1, l, log)
  \/ Return(1)

SpecLog == InitLog /\ [][NextLog]_vars

\* Two goroutines handle a request each, at the same time, on one Logger:
\* the handlers set Data, merge a record of their own into the request's
\* and reset it, and the host ends the requests in any order.
Extra == [k \in {"Data"} |-> "v2"]
Pair == {1, 2}

NextUnits ==
  \E t \in Pair :
    \/ BeginServe(t)
    \/ New(t)
    \/ SetTo(t, "Data", "v1")
    \/ HandlerFrom(t, Extra)
    \/ HandlerReset(t)
    \/ HostEnd(t)
    \/ EndHook(t)
    \/ Consume(t)
    \/ ConsumeReturn(t)
    \/ Output(t) \/ Format(t) \/ Lock(t) \/ Fprintf(t) \/ Newline(t)
    \/ Unlock(t) \/ Return(t)

SpecUnits == Init /\ [][NextUnits]_vars

\* ------------------------------------------------------------------ properties
\* the call of thread t has returned and its result is in cur[t]
Returned(t) == At(t, "ret")

\* the Write calls the destination accepted since the call of t was entered
\* (in a specification with one goroutine these are the call's own)
Accepted(t) == Len(out) - cur[t].base

\* the text the default output hook writes for value v
Rendered(v) == TrimOneLF(format(v).str)

\* C1: under every threshold T and for every leveled method of severity S,
\* with the default output hook and a working destination, a call whose
\* value renders writes its line and the newline when S <= T, and when
\* S > T it invokes no hook, makes no Write, leaves the destination as it
\* was and returns nil.
LevelFilter ==
  \A t \in Threads :
    (Returned(t) /\ cur[t].op \in LeveledMethods) =>
      LET S == MethodLevel(cur[t].op) IN
        /\ S > level =>
             /\ Accepted(t) = 0
             /\ cur[t].nw = 0
             /\ cur[t].hook = "none"
             /\ cur[t].err = "nil"
        /\ (S <= level /\ destOK /\ format(cur[t].v).err = "nil") =>
             /\ Accepted(t) = 2
             /\ out[Len(out) - 1].part = "line"
             /\ out[Len(out) - 1].data = Line(cur[t].tag, Rendered(cur[t].v))
             /\ out[Len(out)].part = "nl"
             /\ cur[t].err = "nil"

\* a Notice call has returned under threshold Err without writing
LevelFilterWitness ==
  \E t \in Threads :
    /\ Returned(t) /\ cur[t].op = "Notice"
    /\ level = ErrLevel
    /\ Accepted(t) = 0 /\ cur[t].err = "nil"

\* C4: SetLevel with a level above DebugLevel panics and leaves the
\* threshold as it was when the call was entered; with a level in 0..7 it
\* sets the threshold to that level and returns normally.
SetLevelChecked ==
  \A t \in Threads :
    (Returned(t) /\ cur[t].op = "SetLevel") =>
      IF cur[t].arg > DebugLevel
        THEN cur[t].err = "panic" /\ level = cur[t].was
        ELSE cur[t].err = "nil" /\ level = cur[t].arg

\* SetLevel(8) has panicked on a Logger configured to Err before
SetLevelCheckedWitness ==
  \E t \in Threads :
    /\ Returned(t) /\ cur[t].op = "SetLevel"
    /\ cur[t].arg = DebugLevel + 1
    /\ cur[t].was = ErrLevel /\ level = ErrLevel
    /\ cur[t].err = "panic"

\* C8: the default output hook returns nil exactly when the value rendered
\* and every Write it made on the destination, the line's and the
\* newline's, was accepted.
ReturnsFirstError ==
  \A t \in Threads :
    (Returned(t) /\ cur[t].op \in LeveledMethods /\ cur[t].hook = "default") =>
      (cur[t].err = "nil" <=>
         (format(cur[t].v).err = "nil" /\ Accepted(t) = cur[t].nw))

\* C9: a logging operation through the default output hook that returns nil
\* has made exactly one call of the destination's Write.
SingleWrite ==
  \A t \in Threads :
    (Returned(t) /\ cur[t].op \in LeveledMethods /\ cur[t].hook = "default"
       /\ cur[t].err = "nil") => cur[t].nw = 1

\* the level a tag names
TagLevel(tag) == CHOOSE lv \in Levels : LevelString(lv) = tag

\* C10: a call of Output whose tag names a level greater than the Logger's,
\* made directly or by the default consume hook at the end of a request,
\* writes nothing.
OutputFilters ==
  \A t \in Threads :
    (Returned(t) /\ cur[t].op \in {"Output", "flush", "end"}
       /\ cur[t].hook = "default" /\ TagLevel(cur[t].tag) > level) =>
      Accepted(t) = 0

\* the host's run of the end hooks for the request of t has returned
UnitEnd(t) == Returned(t) /\ cur[t].op = "end"

EmptyFlushSkipped ==
  \A t \in Threads :
    (UnitEnd(t) /\ unit[t].endLen = 0) =>
      /\ unit[t].consumed = 0
      /\ cur[t].hook = "none"
      /\ cur[t].nw = 0
      /\ Accepted(t) = 0

ResetEmpties == \A t \in Threads : HandlerReset(t) => Len0(logs'[unit[t].log]) = 0

\* C5: when the end hook runs on a record with zero keys, the consume hook
\* and the output hook are not invoked and nothing is written; and every
\* Reset leaves the record with zero keys.
EmptyRecordSkipped == [][ResetEmpties /\ EmptyFlushSkipped']_vars

\* the end hook has returned for a record that a handler had emptied
EmptyRecordSkippedWitness ==
  \E t \in Threads :
    /\ UnitEnd(t) /\ unit[t].endLen = 0
    /\ unit[t].consumed = 0 /\ Accepted(t) = 0

\* C6: in every request the consume hook is never invoked before the host
\* runs the end hooks, never more than once, and by the end exactly once if
\* the record held a key when the end hooks ran and not at all if it held
\* none.
FlushedOnceAtEnd ==
  \A t \in Threads :
    /\ unit[t].consumed <= 1
    /\ unit[t].phase \in {"none", "new", "served"} => unit[t].consumed = 0
    /\ (UnitEnd(t) \/ unit[t].phase = "ended") =>
         unit[t].consumed = IF unit[t].endLen > 0 THEN 1 ELSE 0

\* a request whose handler set Data has ended with its record consumed once
FlushedOnceAtEndWitness ==
  \E t \in Threads :
    /\ UnitEnd(t)
    /\ "Data" \in DOMAIN Rec(t)
    /\ unit[t].consumed = 1

\* the message of a line written under the line format New installs: what
\* follows the timestamp and the tag
MessageOf(tag, data) == SubSeq(data, Len(Line(tag, <<>>)) + 1, Len(data))

\* the text whose escaping is m: \r read back as CR and \n as LF
RECURSIVE Unescape(_)
Unescape(m) ==
  IF Len(m) >= 2 /\ m[1] = "\\" /\ m[2] = "r" THEN <<CR>> \o Unescape(SubSeq(m, 3, Len(m)))
  ELSE IF Len(m) >= 2 /\ m[1] = "\\" /\ m[2] = "n" THEN <<LF>> \o Unescape(SubSeq(m, 3, Len(m)))
  ELSE IF m = <<>> THEN <<>>
  ELSE <<Head(m)>> \o Unescape(Tail(m))

Raw(s) == \E i \in 1..Len(s) : s[i] \in {CR, LF}

\* C7: a line the default output hook writes holds no raw CR or LF, and the
\* message in it is the rendered value, less one trailing LF, with every CR
\* written as backslash-r and every LF as backslash-n.
NoRawNewline ==
  /\ \A i \in 1..Len(out) : out[i].part = "line" => ~Raw(out[i].data)
  /\ \A t \in Threads :
       (Returned(t) /\ cur[t].hook = "default" /\ Accepted(t) = 2) =>
         LET m == MessageOf(cur[t].tag, out[Len(out) - 1].data) IN
           /\ Unescape(m) = Rendered(cur[t].v)
           /\ Len(m) = Len(Rendered(cur[t].v))
                         + Cardinality({i \in 1..Len(Rendered(cur[t].v)) :
                                          Rendered(cur[t].v)[i] \in {CR, LF}})

\* a value holding a CR and an LF before its last character has been written
NoRawNewlineWitness ==
  \E t \in Threads :
    /\ Returned(t) /\ Accepted(t) = 2
    /\ cur[t].v.s = <<CR, LF, "a">>

\* the Write calls of out that are the newline of a line
Newlines == {i \in 1..Len(out) : out[i].part = "nl"}

\* C2: while the destination works, whatever the interleaving of the
\* callers, every line in the destination is followed at once by the
\* newline of the same call (or is the last Write, its caller holding the
\* lock at the newline), every newline follows its own line, and the
\* destination holds as many whole lines as calls of the output hook have
\* written.
WholeLines ==
  destOK =>
    /\ \A i \in 1..Len(out) :
         /\ out[i].part = "line" =>
              IF i < Len(out)
                THEN out[i + 1].part = "nl" /\ out[i + 1].by = out[i].by
                ELSE At(out[i].by, "newline") /\ mu = out[i].by
         /\ out[i].part = "nl" =>
              i > 1 /\ out[i - 1].part = "line" /\ out[i - 1].by = out[i].by
    /\ Cardinality(Newlines) =
         done + Cardinality({t \in Threads : At(t, "unlock") /\ WroteLine(t)})

\* one goroutine waits for the lock while another is between its line and
\* its newline
WholeLinesWitness ==
  /\ destOK
  /\ \E t, u \in Threads : t # u /\ At(t, "lock") /\ At(u, "newline")

\* the Logger fields the next step of thread t reads, and those it writes
Reads(t) ==
  CASE At(t, "check") -> {"l"}
    [] At(t, "output") -> {"output"}
    [] At(t, "new") -> {"init"}
    [] At(t, "consume") -> {"consume"}
    [] At(t, "fprintf") -> {"lf", "tf"}
    [] OTHER -> {}

Writes(t) ==
  IF ~At(t, "set") THEN {}
  ELSE CASE cur[t].op = "SetLevel" -> IF cur[t].arg > DebugLevel THEN {} ELSE {"l"}
         [] cur[t].op = "SetTimeFormat" -> {"tf"}
         [] cur[t].op = "SetLogFormat" -> {"lf"}
         [] cur[t].op = "SetLogInit" -> {"init"}
         [] cur[t].op = "SetLogConsume" -> {"consume"}
         [] cur[t].op = "SetOutput" -> {"output"}

\* C3: no goroutine is about to read a Logger field while a setter in
\* another goroutine is about to write the same field.
NoUnsynchronizedRead ==
  \A t, u \in Threads :
    t # u => Writes(t) \cap (Reads(u) \cup Writes(u)) = {}

\* the call of thread t is one of Panic or Fatal
Unrecoverable(t) == cur[t].op \in {"Panic", "Fatal"}

\* C11: under every threshold, a call of Panic or Fatal invokes the output
\* hook once, with the tag EMERG, before it panics or calls exit(): it has
\* invoked no hook and neither panicked nor exited while it is entering
\* Output, and has invoked exactly one from then on, the default hook
\* writing the line and its newline on a working destination; when the
\* call is over Panic has panicked, whatever the hook returned, and Fatal
\* has called exit() exactly once.
LogsFirst ==
  \A t \in Threads :
    Unrecoverable(t) =>
      /\ cur[t].tag = "EMERG"
      /\ cur[t].calls = IF At(t, "output") THEN 0 ELSE 1
      /\ cur[t].exits <= 1
      /\ (cur[t].raised \/ cur[t].exits > 0) =>
           /\ cur[t].calls = 1
           /\ cur[t].hook = outputHook
           /\ (cur[t].hook = "default" /\ destOK) => Accepted(t) = 2
      /\ (Returned(t) \/ At(t, "exited")) =>
           IF cur[t].op = "Panic" THEN cur[t].raised /\ cur[t].exits = 0
                                  ELSE cur[t].exits = 1 /\ ~cur[t].raised

\* Panic has panicked under threshold Emerg after the default output hook
\* returned the error of a failed Write
LogsFirstWitness ==
  \E t \in Threads :
    /\ Returned(t) /\ cur[t].op = "Panic" /\ cur[t].raised
    /\ level = EmergLevel
    /\ cur[t].hook = "default" /\ cur[t].err = "errWrite"

\* the union of the records x and y, with y's value on every shared key
Union(x, y) ==
  [k \in DOMAIN x \cup DOMAIN y |-> IF k \in DOMAIN y THEN y[k] ELSE x[k]]

\* the heap h with record r holding log and every other record as it was
Only(h, r, log) == [x \in DOMAIN h \cup {r} |-> IF x = r THEN log ELSE h[x]]

\* C12: a.From(b) returns a, now the union of a and b with b's values on
\* shared keys, and changes no other record; a.Into(b) returns b, now the
\* union of b and a with a's values on shared keys, and changes no other
\* record; a.With(b) returns a record that was not on the heap before,
\* holding the union of a and b with b's values on shared keys, and
\* changes no record that was; all three also when a and b are one record.
MergeLaws ==
  \A t \in Threads :
    (Returned(t) /\ cur[t].op \in {"From", "Into", "With"}) =>
      LET a == cur[t].self
          b == cur[t].other
          h == cur[t].pre
      IN  CASE cur[t].op = "From" ->
                 cur[t].res = a /\ logs = Only(h, a, Union(h[a], h[b]))
            [] cur[t].op = "Into" ->
                 cur[t].res = b /\ logs = Only(h, b, Union(h[b], h[a]))
            [] cur[t].op = "With" ->
                 /\ cur[t].res \notin DOMAIN h
                 /\ logs = Only(h, cur[t].res, Union(h[a], h[b]))

\* a.With(b) has returned a new record with b's value on a key on which a
\* and b differ, and a and b still differ on it
MergeLawsWitness ==
  \E t \in Threads :
    /\ Returned(t) /\ cur[t].op = "With"
    /\ \E k \in DOMAIN logs[cur[t].self] \cap DOMAIN logs[cur[t].other] :
         /\ logs[cur[t].self][k] = "v1"
         /\ logs[cur[t].other][k] = "v2"
         /\ logs[cur[t].res][k] = "v2"

\* the text Print and Printf hand to the destination, and Println
RawText(op, text) == IF op = "Println" THEN text \o <<LF>> ELSE text

\* C13: under every threshold and with either output hook installed, a
\* call of Print, Printf or Println passes no level check and invokes no
\* output hook, holds the lock when it writes and until its deferred
\* Unlock, and makes one Write: on a working destination, its text as it
\* is (with Println's newline), with no timestamp and no tag.
PrintsRaw ==
  \A t \in Threads :
    cur[t].op \in Printers =>
      /\ cur[t].pc \in {"lock", "print", "unlock", "ret"}
      /\ cur[t].hook = "none" /\ cur[t].calls = 0
      /\ cur[t].pc \in {"print", "unlock"} => mu = t
      /\ cur[t].nw = IF cur[t].pc \in {"unlock", "ret"} THEN 1 ELSE 0
      /\ (Returned(t) /\ destOK) =>
           /\ Accepted(t) = 1
           /\ out[Len(out)] = [by |-> t, part |-> "raw",
                                data |-> RawText(cur[t].op, cur[t].s)]

\* Println has written its text and a newline under threshold Emerg with a
\* custom output hook installed
PrintsRawWitness ==
  \E t \in Threads :
    /\ Returned(t) /\ cur[t].op = "Println"
    /\ level = EmergLevel /\ outputHook = "custom"
    /\ Accepted(t) = 1
    /\ out[Len(out)].data = <<"p", LF>>

\* every record held for a request other than that of t is as it was
OthersKept(t) ==
  \A u \in Threads \ {t} :
    unit[u].log \in DOMAIN logs =>
      /\ unit'[u].log = unit[u].log
      /\ logs'[unit[u].log] = logs[unit[u].log]

\* a handler of the request of t changes the request's record
Mutation(t) ==
  \/ SetTo(t, "Data", "v1")
  \/ HandlerFrom(t, Extra)
  \/ HandlerReset(t)

\* Logger.New gives the request of t a record no request held, seeded by
\* the init hook alone
FreshRecord(t) ==
  /\ unit'[t].log \notin DOMAIN logs
  /\ \A u \in Threads \ {t} : unit'[t].log # unit[u].log
  /\ logs'[unit'[t].log] =
       IF initHook = "default" THEN DefaultInit(EmptyLog) ELSE CustomInit(EmptyLog)

\* no two requests hold the same record, and what a flush hands to Output
\* and writes is the record of its own request
OwnRecord ==
  \A t \in Threads :
    /\ \A u \in Threads \ {t} : unit[t].log # 0 => unit[t].log # unit[u].log
    /\ cur[t].op = "flush" => cur[t].v = LogValue(Rec(t))
    /\ (cur[t].op = "flush" /\ At(t, "newline")) =>
         out[Len(out)] =
           [by |-> t, part |-> "line",
            data |-> Line("INFO", TrimOneLF(LogFormat(Rec(t)).str))]

\* C14: Logger.New gives each request a record that no other request
\* holds, empty but for what the init hook seeds; a handler's SetTo (or
\* assignment), From or Reset on its request's record, like New and the end
\* hook's own writes, leaves the record of every other request as it was;
\* and the flush at the end of a request hands its own record to Output,
\* which writes that record.
RecordsApart ==
  /\ []OwnRecord
  /\ [][\A t \in Threads :
          /\ New(t) => (FreshRecord(t) /\ OthersKept(t))
          /\ (Mutation(t) \/ EndHook(t) \/ Consume(t)) => OthersKept(t)]_vars

\* the flush of one request has written its record, Data v1, while the
\* other request's record, made before it, holds Data v2
RecordsApartWitness ==
  \E t, u \in Threads :
    /\ t # u
    /\ cur[t].op = "flush" /\ At(t, "newline")
    /\ unit[u].phase = "served"
    /\ "Data" \in DOMAIN Rec(t) /\ Rec(t)["Data"] = "v1"
    /\ "Data" \in DOMAIN Rec(u) /\ Rec(u)["Data"] = "v2"

\* the message of the line for the rendered text s: s escaped when it does
\* not end in LF; m escaped when s is m and one LF; m escaped and one
\* backslash-n when s is m and two LFs
LineMessage(s) ==
  LET n == Len(s) IN
    CASE n >= 2 /\ s[n] = LF /\ s[n - 1] = LF ->
           crlfEscaper(SubSeq(s, 1, n - 2)) \o <<"\\", "n">>
      [] n >= 1 /\ s[n] = LF /\ (n = 1 \/ s[n - 1] # LF) ->
           crlfEscaper(SubSeq(s, 1, n - 1))
      [] OTHER -> crlfEscaper(s)

\* C15: an emission through the default output hook that returned nil on a
\* working destination has appended two Writes: the line format applied to
\* the UTC timestamp in the time format, the tag and the message, and one
\* LF; the message is the rendered text escaped, less one trailing LF, so
\* m and m with one LF give the same line and m with two LFs gives m and
\* one backslash-n.
LineExact ==
  \A t \in Threads :
    (Returned(t) /\ cur[t].op = "Output" /\ cur[t].hook = "default"
       /\ cur[t].err = "nil" /\ destOK) =>
      /\ Accepted(t) = 2
      /\ out[Len(out) - 1] =
           [by |-> t, part |-> "line",
            data |-> Sprintf(lf, <<TimeFormat(tf, "now"), <<cur[t].tag>>,
                                   LineMessage(format(cur[t].v).str)>>)]
      /\ out[Len(out)] = [by |-> t, part |-> "nl", data |-> <<LF>>]

\* a text ending in two LFs has been written under the other line format
\* and the other time format
LineExactWitness ==
  \E t \in Threads :
    /\ Returned(t) /\ cur[t].op = "Output" /\ cur[t].err = "nil"
    /\ cur[t].v.s = <<"a", LF, LF>>
    /\ lf = OtherLogFormat /\ tf = OtherTimeFormat
    /\ Accepted(t) = 2
    /\ out[Len(out) - 1].data =
         <<"utc", "now", OtherTimeFormat, "|", "INFO", "|", "a", "\\", "n">>

\* the setter that has returned in thread t has installed its argument
Installed(t) ==
  CASE cur[t].op = "SetLevel" -> level = cur[t].arg
    [] cur[t].op = "SetTimeFormat" -> tf = cur[t].sarg
    [] cur[t].op = "SetLogFormat" -> lf = cur[t].farg
    [] cur[t].op = "SetLogInit" -> initHook = cur[t].sarg
    [] cur[t].op = "SetLogConsume" -> consumeHook = cur[t].sarg
    [] cur[t].op = "SetOutput" -> outputHook = cur[t].sarg

\* the call that has returned in thread t went through Output once, to
\* the output hook now installed, and if that is the default one it wrote
\* its line under the formats now installed
UsedOutput(t) ==
  /\ cur[t].calls = 1
  /\ cur[t].hook = outputHook
  /\ cur[t].hook = "custom" => Accepted(t) = 0
  /\ (cur[t].hook = "default" /\ cur[t].err = "nil") =>
       /\ Accepted(t) = 2
       /\ out[Len(out) - 1].data =
            Sprintf(lf, <<TimeFormat(tf, "now"), <<cur[t].tag>>,
                          crlfEscaper(Rendered(cur[t].v))>>)

\* the record of a request in progress holds what the init hook installed
\* when Logger.New ran had seeded
KeepsSeed(t) ==
  IF unit[t].born.init = "default"
    THEN \A k \in InitKeys :
           k \in DOMAIN Rec(t) /\ Rec(t)[k] = DefaultInit(EmptyLog)[k]
    ELSE "Data" \in DOMAIN Rec(t) /\ DOMAIN Rec(t) \cap InitKeys = {}

TakesEffect ==
  \A t \in Threads :
    /\ (Returned(t) /\ cur[t].op \in Setters /\ cur[t].err = "nil") => Installed(t)
    /\ (Returned(t) /\ cur[t].op \in LeveledMethods) =>
         IF MethodLevel(cur[t].op) <= level THEN UsedOutput(t)
                                            ELSE cur[t].calls = 0 /\ Accepted(t) = 0
    /\ (UnitEnd(t) /\ unit[t].endLen > 0) =>
         /\ unit[t].consumed = 1
         /\ IF consumeHook = "default" THEN UsedOutput(t)
                                       ELSE cur[t].calls = 0 /\ Accepted(t) = 0
    /\ unit[t].phase \in {"served", "ending"} => KeepsSeed(t)

\* a step of a setter under the lock
SetterStep(t) ==
  \/ SetLevel(t) \/ SetTimeFormat(t) \/ SetLogFormat(t)
  \/ SetLogInit(t) \/ SetLogConsume(t) \/ SetOutput(t)

\* C16: a setter that has returned has installed its argument; from then
\* on an emission is filtered by the threshold installed, goes to the
\* output hook installed and is written under the formats installed, and
\* the flush at the end of a request goes to the consume hook installed,
\* also for a record made before the setter was called; no setter changes
\* a record, and a record keeps what the init hook of its making seeded
\* whatever init hook is installed later.
SettersTakeEffect ==
  /\ []TakesEffect
  /\ [][\A t \in Threads : SetterStep(t) => logs' = logs]_vars

\* a request whose record was made under the default init and consume
\* hooks has ended after SetLogInit and SetLogConsume installed custom
\* hooks: the custom consume hook took the record, which still holds the
\* default seed
SettersTakeEffectWitness ==
  \E t \in Threads :
    /\ UnitEnd(t) /\ unit[t].consumed = 1
    /\ unit[t].born = [init |-> "default", consume |-> "default"]
    /\ initHook = "custom" /\ consumeHook = "custom"
    /\ cur[t].calls = 0
    /\ "IP" \in DOMAIN Rec(t)

\* the value is a Messager whose Format returns an error
Fails(v) == v.msgr /\ v.fails

\* C17: a call of the default output hook with a value whose rendering
\* fails never reaches the lock, makes no Write and leaves the destination
\* as it was, and returns the rendering's error; when the call is the
\* flush at the end of a request, the default consume hook has handed
\* that error, and nothing else, to ctx.LogErr when the end hook returns.
RenderFailure ==
  \A t \in Threads :
    (cur[t].hook = "default" /\ Fails(cur[t].v)) =>
      /\ cur[t].pc \in {"format", "ret"}
      /\ mu # t
      /\ cur[t].nw = 0 /\ Accepted(t) = 0
      /\ Returned(t) => cur[t].err = "errFormat"
      /\ (Returned(t) /\ cur[t].op = "flush") => unit[t].sink = <<>>
      /\ UnitEnd(t) => unit[t].sink = <<"errFormat">>

\* a request whose handler set Data to a value json.Marshal rejects has
\* ended: nothing was written and the error sink holds the one error
RenderFailureWitness ==
  \E t \in Threads :
    /\ UnitEnd(t) /\ cur[t].hook = "default"
    /\ "Data" \in DOMAIN Rec(t) /\ Rec(t)["Data"] = Unmarshalable
    /\ Accepted(t) = 0
    /\ unit[t].sink = <<"errFormat">>

\* the positions of a call between its mu.Lock() and its deferred Unlock
Critical == {"print", "set", "fprintf", "newline", "unlock"}

\* C18: the lock is held only by a call that is between its Lock and its
\* deferred Unlock, where no step waits for anything; a call that has
\* returned, panicked (SetLevel on a level above Debug, Panic) or called
\* exit(), also after a failed Write, does not hold it, so the lock is
\* free whenever no call is between its Lock and its Unlock.
LockReleased ==
  /\ mu \in {0} \cup Threads
  /\ \A t \in Threads :
       /\ mu = t <=> cur[t].pc \in Critical
       /\ cur[t].pc \in Critical =>
            (ENABLED (Fprint(t) \/ SetterStep(t) \/ Fprintf(t) \/ Newline(t)
                        \/ Unlock(t)))
  /\ (\A t \in Threads : cur[t].pc \notin Critical) => mu = 0

\* Panic has panicked after the Write of its line failed, and the lock is
\* free
LockReleasedWitness ==
  \E t \in Threads :
    /\ Returned(t) /\ cur[t].op = "Panic" /\ cur[t].raised
    /\ cur[t].nw = 1 /\ cur[t].err = "errWrite"
    /\ mu = 0

\* C19: when the end hook has returned for a record that held a key, with
\* the default consume hook installed, the hook ran once and called Output
\* once, with the tag INFO and the record as it then was: Status and
\* Length stamped, and Time set exactly when the record holds Start; a
\* record without Start is handed over and, when it renders on a working
\* destination, written like any other, under every threshold.
FlushWithoutStart ==
  \A t \in Threads :
    (UnitEnd(t) /\ unit[t].endLen > 0 /\ consumeHook = "default") =>
      /\ unit[t].consumed = 1
      /\ cur[t].calls = 1
      /\ cur[t].tag = "INFO"
      /\ cur[t].err # "panic"
      /\ {"Status", "Length"} \subseteq DOMAIN Rec(t)
      /\ "Time" \in DOMAIN Rec(t) <=> "Start" \in DOMAIN Rec(t)
      /\ cur[t].v = LogValue(Rec(t))
      /\ (cur[t].hook = "default" /\ destOK /\ ~Fails(cur[t].v)) =>
           /\ Accepted(t) = 2
           /\ out[Len(out) - 1].data =
                Line("INFO", <<"{">> \o Entries(Rec(t), KeyOrder) \o <<"}">>)

\* a request whose handler reset the record and then set Data has ended
\* under threshold Err: its record was written with Status and Length and
\* neither Start nor Time
FlushWithoutStartWitness ==
  \E t \in Threads :
    /\ UnitEnd(t) /\ consumeHook = "default" /\ level = ErrLevel
    /\ DOMAIN Rec(t) = {"Data", "Status", "Length"}
    /\ unit[t].consumed = 1
    /\ Accepted(t) = 2

====
